---------------------------- MODULE Spec2Model ----------------------------
(***************************************************************************)
(* A model of sc_manifest_parser: the manifest resolver (ScManifest), the  *)
(* element wrappers (ManifestElementInterface, ProjectElementInterface)    *)
(* and the serializer (ScManifest.write).                                  *)
(*                                                                         *)
(* An XML element is a record [tag, attrs, att, kids].  attrs maps every   *)
(* attribute name of AttrNames to its string value, or to None when the    *)
(* attribute is not set.  att says whether the element is still attached   *)
(* to its parent: remove() detaches an element, which stays alive for the  *)
(* wrappers (and the resolver's _default) that still reference it.  A      *)
(* wrapper is the position of its element: <<document, top-level index>>   *)
(* or <<document, top-level index, child index>>.                          *)
(*                                                                         *)
(* The file system is a map from path to file: a path is the sequence of   *)
(* its components, and two different paths are two different files (no     *)
(* "..", no symbolic links, no absolute include names).                    *)
(***************************************************************************)
EXTENDS Integers, Sequences, FiniteSets, TLC

VARIABLES
    disk,           \* the file system: path -> file
    manifest_path,  \* ScManifest.manifest_path: the root manifest's path
    manifests,      \* ScManifest.manifests: the ordered dict path -> tree
    _default,       \* ScManifest._default: NoDefault or the default element
    status,         \* "new" | "loading" | "ready" | "failed" | "writing"
    stack,          \* the _parse_include call stack during construction
    err,            \* the exception that ended the last call, or NoErr
    wr,             \* write(): the index in manifests of the next document
    ops,            \* the number of calls (mutations, write()) made so far
    last,           \* the caller's last call
    snap,           \* the content of the trees when write() last returned
    before,         \* the file system when the last call began
    wrote,          \* the paths the last call wrote, in order
    phase,          \* "initial" | "written" | "reloaded"
    dirty,          \* a wrapper mutated the trees since construction
    view            \* what the last projects() call returned, or NoView

vars == <<disk, manifest_path, manifests, _default, status, stack, err, wr,
          ops, last, snap, before, wrote, phase, dirty, view>>

---------------------------------------------------------------------------
(* Bounds *)

\* The depth of nested _parse_include calls at which the interpreter gives
\* up (Python's recursion limit, scaled down).
MaxStack == 4

\* The number of calls the caller makes on wrappers and of write() in one
\* behaviour.
MaxOps == 3

---------------------------------------------------------------------------
(* Values *)

\* Python's None: an attribute that is not set, no default element.
None == "<None>"

AttrNames == {"name", "path", "remote", "value"}

NoAttrs == [a \in AttrNames |-> None]

Attrs(name, path, remote) ==
    [a \in AttrNames |->
        CASE a = "name" -> name [] a = "path" -> path
          [] a = "remote" -> remote [] OTHER -> None]

\* An element as the XML file holds it.
Elem(tag, attrs, kids) == [tag |-> tag, attrs |-> attrs, kids |-> kids]

Missing == [kind |-> "missing", top |-> <<>>]
Partial == [kind |-> "partial", top |-> <<>>]
Link(target) == [kind |-> "link", top |-> <<>>, target |-> target]
XmlFile(top) == [kind |-> "xml", top |-> top]

NoErr == [kind |-> "none", path |-> <<>>]
Error(kind, path) == [kind |-> kind, path |-> path]

\* self._default = None
NoDefault == <<>>

Call(op, w, a, v) == [op |-> op, w |-> w, a |-> a, v |-> v]
NoLast == Call("none", <<>>, None, None)
NoView == << <<0, 0>> >>
NoSnap == <<>>

---------------------------------------------------------------------------
(* Paths *)

\* Path(str): the components of a path given as a string.
Parts(str) ==
    CASE str = "m" -> <<"m">>
      [] str = "a" -> <<"a">>
      [] str = "b" -> <<"b">>
      [] str = "s/b" -> <<"s", "b">>
      [] str = "manifests/m" -> <<"manifests", "m">>
      [] OTHER -> <<str>>

\* Path.parent
Parent(path) == SubSeq(path, 1, Len(path) - 1)

\* The include name taken relative to the working directory.
JoinIgnoringRoot(include_root, path) == Parts(path)

\* Path(include_root) / path
Join(include_root, path) == include_root \o Parts(path)

\* The file a path names, Missing when there is none.
Read(path) == IF path \in DOMAIN disk THEN disk[path] ELSE Missing

---------------------------------------------------------------------------
(* Parsing and serializing *)

RECURSIVE ParseElem(_)
\* etree.parse: the element tree of a file's element, everything attached.
ParseElem(e) ==
    [tag |-> e.tag, attrs |-> e.attrs, att |-> TRUE,
     kids |-> [i \in 1..Len(e.kids) |-> ParseElem(e.kids[i])]]

ParseTop(top) == [i \in 1..Len(top) |-> ParseElem(top[i])]

IsAttached(n) == n.att

\* tree.write that leaves the children of an element out.
SerElemWithoutChildren(n) ==
    [tag |-> n.tag, attrs |-> n.attrs, kids |-> <<>>]

RECURSIVE SerElem(_)
\* tree.write: an element with the children that are still attached to it.
SerElem(n) ==
    LET ks == SelectSeq(n.kids, IsAttached)
    IN  [tag |-> n.tag, attrs |-> n.attrs,
         kids |-> [i \in 1..Len(ks) |-> SerElem(ks[i])]]

SerTop(top) ==
    LET ks == SelectSeq(top, IsAttached)
    IN  [i \in 1..Len(ks) |-> SerElem(ks[i])]

---------------------------------------------------------------------------
(* The document set *)

\* The index in manifests of the document stored under path, 0 if none.
IndexOf(ms, path) ==
    IF \E d \in 1..Len(ms) : ms[d].path = path
    THEN CHOOSE d \in 1..Len(ms) : ms[d].path = path
    ELSE 0

\* self.manifests[path] = tree: a known key keeps its place in the dict.
Put(ms, path, top) ==
    IF IndexOf(ms, path) = 0
    THEN Append(ms, [path |-> path, top |-> top])
    ELSE [ms EXCEPT ![IndexOf(ms, path)].top = top]

\* root.findall(element_name): the attached top-level elements of document
\* d with that tag, in document order, as wrappers.
FindIn(ms, d, tag) ==
    LET idx == [i \in 1..Len(ms[d].top) |-> <<d, i>>]
        Hit(w) == ms[d].top[w[2]].att /\ ms[d].top[w[2]].tag = tag
    IN  SelectSeq(idx, Hit)

RECURSIVE FindFrom(_, _, _)
FindFrom(ms, d, tag) ==
    IF d > Len(ms) THEN <<>>
    ELSE FindIn(ms, d, tag) \o FindFrom(ms, d + 1, tag)

\* ScManifest._find_all
FindAllIn(ms, tag) == FindFrom(ms, 1, tag)

_find_all(tag) == FindAllIn(manifests, tag)

\* The element a wrapper references.
NodeIn(ms, w) ==
    IF Len(w) = 2 THEN ms[w[1]].top[w[2]]
    ELSE ms[w[1]].top[w[2]].kids[w[3]]

Node(w) == NodeIn(manifests, w)

---------------------------------------------------------------------------
(* Construction: ScManifest.__init__ and ScManifest._parse_include *)

\* The same, an include of a path that is already loaded being passed over.
NextIncludeUnseen(top, idx) ==
    LET include_root == Parent(stack[Len(stack)].path)
        S == {j \in idx..Len(top) :
                 /\ top[j].tag = "include"
                 /\ \/ top[j].attrs["name"] = None
                    \/ \A d \in 1..Len(manifests) :
                          manifests[d].path #
                              include_root \o Parts(top[j].attrs["name"])}
    IN  IF S = {} THEN 0 ELSE CHOOSE j \in S : \A k \in S : j <= k

\* The index of the first include element of top at or after idx, 0 if none.
NextInclude(top, idx) ==
    LET S == {j \in idx..Len(top) : top[j].tag = "include"}
    IN  IF S = {} THEN 0 ELSE CHOOSE j \in S : \A k \in S : j <= k

\* A construction that ends after a write() that returned read the files
\* that write() left.
Reloaded == IF phase = "written" THEN "reloaded" ELSE phase

\* The end of __init__ with the first default element taken, however many.
FinishFirstDefault(ms) ==
    LET defaults == FindAllIn(ms, "default")
    IN  /\ phase' = Reloaded
        /\ status' = "ready"
        /\ err' = NoErr
        /\ _default' = IF Len(defaults) >= 1 THEN defaults[1] ELSE NoDefault

\* The end of __init__: the default element is located, once.
Finish(ms) ==
    LET defaults == FindAllIn(ms, "default")
    IN  /\ phase' = Reloaded
        /\ IF Len(defaults) > 1
           THEN /\ status' = "failed"
                /\ err' = Error("ValueError: more than one default", <<>>)
                /\ _default' = NoDefault
           ELSE /\ status' = "ready"
                /\ err' = NoErr
                /\ _default' = IF Len(defaults) = 1 THEN defaults[1]
                                           ELSE NoDefault

\* An exception leaves the constructor: no resolver is produced.
Fail(kind, path) ==
    /\ status' = "failed"
    /\ err' = Error(kind, path)
    /\ _default' = NoDefault
    /\ stack' = <<>>
    /\ phase' = Reloaded

\* A call op of the caller begins that constructs a resolver.
Begin(op) ==
    /\ dirty' = FALSE
    /\ view' = NoView
    /\ last' = Call(op, <<>>, None, None)
    /\ before' = disk
    /\ wrote' = <<>>
    /\ UNCHANGED <<disk, wr, ops, snap>>

\* The start of __init__: the root manifest is checked, parsed and stored.
ConstructFrom(path) ==
    /\ manifest_path' = path
    /\ LET file == Read(path)
       IN  CASE file.kind = "missing" ->
                  /\ Fail("FileNotFoundError", path)
                  /\ manifests' = <<>>
             [] file.kind = "partial" ->
                  /\ Fail("XMLSyntaxError", path)
                  /\ manifests' = <<>>
             [] OTHER ->
                  /\ manifests' = <<[path |-> path,
                                     top |-> ParseTop(file.top)]>>
                  /\ stack' = <<[path |-> path, idx |-> 1]>>
                  /\ status' = "loading"
                  /\ err' = NoErr
                  /\ _default' = NoDefault
                  /\ phase' = phase

\* ScManifest(manifest_path)
Construct ==
    /\ status \in {"new", "ready"}
    /\ Begin("construct")
    /\ ConstructFrom(manifest_path)

\* The workspace root from_repo_root is called with.
RepoRoot == <<"r">>

\* The include elements of a parsed pointer file.
IncludedIn(file) == SelectSeq(file.top, LAMBDA e : e.tag = "include")

\* ScManifest.from_repo_root(RepoRoot)
from_repo_root ==
    /\ status = "new"
    /\ Begin("from_repo_root")
    /\ LET manifest_xml == RepoRoot \o <<"manifest.xml">>
           file == Read(manifest_xml)
           included == IncludedIn(file)
           Raise(kind, path) == /\ Fail(kind, path)
                                /\ manifests' = <<>>
                                /\ manifest_path' = manifest_path
       IN  CASE file.kind = "link" ->
                  ConstructFrom(Join(RepoRoot, file.target))
             [] file.kind = "missing" -> Raise("OSError", manifest_xml)
             [] file.kind = "partial" -> Raise("XMLSyntaxError", manifest_xml)
             [] file.kind = "xml" /\ Len(included) # 1 ->
                  Raise("TypeError", <<>>)
             [] file.kind = "xml" /\ Len(included) = 1
                   /\ included[1].attrs["name"] = None ->
                  Raise("KeyError", <<>>)
             [] OTHER ->
                  ConstructFrom(Join(Parent(manifest_xml) \o <<"manifests">>,
                                     included[1].attrs["name"]))

\* One step of the include loops: the running loop (the root's in __init__,
\* an included document's in _parse_include) takes its next include
\* element, or ends.
LoadStep ==
    /\ status = "loading"
    /\ UNCHANGED <<disk, manifest_path, wr, ops, last, snap, before, wrote,
                   dirty, view>>
    /\ LET f == stack[Len(stack)]
           top == manifests[IndexOf(manifests, f.path)].top
           j == NextInclude(top, f.idx)
           isRoot == Len(stack) = 1
       IN  IF j = 0
           THEN IF isRoot
                THEN /\ Finish(manifests)
                     /\ stack' = <<>>
                     /\ manifests' = manifests
                ELSE /\ stack' = SubSeq(stack, 1, Len(stack) - 1)
                     /\ UNCHANGED <<manifests, status, err, _default, phase>>
           ELSE LET name == top[j].attrs["name"]
                    full_path == Join(Parent(f.path), name)
                    file == Read(full_path)
                IN  CASE name = None /\ isRoot ->
                           /\ Fail("TypeError", <<>>)
                           /\ manifests' = manifests
                      [] name = None /\ ~isRoot ->
                           /\ Fail("ValueError: include missing name", f.path)
                           /\ manifests' = manifests
                      [] name # None /\ Len(stack) >= MaxStack ->
                           /\ Fail("RecursionError", <<>>)
                           /\ manifests' = manifests
                      [] name # None /\ Len(stack) < MaxStack
                            /\ file.kind = "missing" ->
                           /\ Fail("OSError", full_path)
                           /\ manifests' = manifests
                      [] name # None /\ Len(stack) < MaxStack
                            /\ file.kind = "partial" ->
                           /\ Fail("XMLSyntaxError", full_path)
                           /\ manifests' = manifests
                      [] OTHER ->
                           /\ manifests' = Put(manifests, full_path,
                                               ParseTop(file.top))
                           /\ stack' = Append(
                                  [stack EXCEPT ![Len(stack)].idx = j + 1],
                                  [path |-> full_path, idx |-> 1])
                           /\ UNCHANGED <<status, err, _default, phase>>

---------------------------------------------------------------------------
(* Element wrappers: ManifestElementInterface, ProjectElementInterface *)

\* ScManifest.get_default_value
get_default_value(name) ==
    IF _default # NoDefault THEN Node(_default).attrs[name] ELSE None

\* __getattr__ without the fallback to the default element.
GetOwnOnly(w, name) == Node(w).attrs[name]

\* ManifestElementInterface.__getattr__
Get(w, name) ==
    LET value == Node(w).attrs[name]
    IN  IF value = None THEN get_default_value(name) ELSE value

\* a or b, for the strings and None
Or(a, b) == IF a = None \/ a = "" THEN b ELSE a

\* ProjectElementInterface.path
ProjectPath(w) == Or(Node(w).attrs["path"], Node(w).attrs["name"])

\* ManifestElementInterface.children: the attached children, in order.
Children(w) ==
    LET idx == [j \in 1..Len(Node(w).kids) |-> <<w[1], w[2], j>>]
        Hit(c) == Node(c).att
    IN  SelectSeq(idx, Hit)

\* ManifestElementInterface.search_children
search_children(w, name) ==
    SelectSeq(Children(w), LAMBDA c : Node(c).tag = name)

\* f"GIT_FLOW_BRANCH_{branch.upper()}"
BranchAnnotation(branch) ==
    CASE branch = "master" -> "GIT_FLOW_BRANCH_MASTER"
      [] branch = "develop" -> "GIT_FLOW_BRANCH_DEVELOP"

\* f"{branch}-{value}"
Dash(branch, value) ==
    CASE branch = "master" /\ value = "v2" -> "master-v2"
      [] branch = "master" /\ value = "develop_2" -> "master-develop_2"
      [] branch = "master" /\ value = None -> "master-None"
      [] branch = "develop" /\ value = "v2" -> "develop-v2"
      [] branch = "develop" /\ value = "develop_2" -> "develop-develop_2"
      [] branch = "develop" /\ value = None -> "develop-None"

\* The loop of _get_alternative_branch with the suffix annotation left out.
ScanBranchOnly(annotations, k, branch) ==
    LET S == {i \in k..Len(annotations) :
                 Node(annotations[i]).attrs["name"] = BranchAnnotation(branch)}
    IN  IF S = {} THEN None
        ELSE Node(annotations[CHOOSE i \in S : \A j \in S : i <= j])
                 .attrs["value"]

RECURSIVE ScanFrom(_, _, _)
\* The loop of _get_alternative_branch, from annotation k on.
ScanFrom(annotations, k, branch) ==
    IF k > Len(annotations) THEN None
    ELSE LET annotation == annotations[k]
         IN  IF Get(annotation, "name") = BranchAnnotation(branch)
             THEN Get(annotation, "value")
             ELSE IF Get(annotation, "name") = "GIT_FLOW_SUFFIX"
             THEN Dash(branch, Get(annotation, "value"))
             ELSE ScanFrom(annotations, k + 1, branch)

\* ProjectElementInterface._get_alternative_branch
_get_alternative_branch(w, branch) ==
    LET annotations == search_children(w, "annotation")
    IN  IF annotations = <<>> THEN None ELSE ScanFrom(annotations, 1, branch)

\* ProjectElementInterface.alternative_master, alternative_develop
alternative_master(w) == _get_alternative_branch(w, "master")
alternative_develop(w) == _get_alternative_branch(w, "develop")

Range(seq) == {seq[i] : i \in 1..Len(seq)}

\* The top-level elements the resolver hands out wrappers of: remotes,
\* projects, remove_projects, post_sync_scripts, git_flow and default.
QueryTags == {"remote", "project", "remove-project", "post-sync", "git_flow",
              "default"}

TopWrappers ==
    UNION {Range(_find_all(t)) : t \in QueryTags}
        \cup (IF _default = NoDefault THEN {} ELSE {_default})

Wrappers == TopWrappers \cup UNION {Range(Children(w)) : w \in TopWrappers}

\* The trees with the element of wrapper w replaced by n.
WithNode(w, n) ==
    IF Len(w) = 2
    THEN [manifests EXCEPT ![w[1]].top[w[2]] = n]
    ELSE [manifests EXCEPT ![w[1]].top[w[2]].kids[w[3]] = n]

\* A call on a wrapper, and the exception it raises ("none": it returns).
Mutation(op, w, a, v, e) ==
    /\ status = "ready"
    /\ ops < MaxOps
    /\ ops' = ops + 1
    /\ last' = Call(op, w, a, v)
    /\ err' = IF e = "none" THEN NoErr ELSE Error(e, <<>>)
    /\ dirty' = TRUE
    /\ view' = NoView
    /\ before' = disk
    /\ wrote' = <<>>
    /\ UNCHANGED <<disk, manifest_path, _default, status, stack, wr, snap,
                   phase>>

\* The attributes the caller sets and deletes, and the values it sets.
EditNames == {"name", "remote"}
SetValues == {"B"}

\* ManifestElementInterface.__setattr__
SetAttr ==
    \E w \in Wrappers, a \in EditNames, v \in SetValues :
        /\ Mutation("set", w, a, v, "none")
        /\ manifests' = WithNode(w, [Node(w) EXCEPT !.attrs[a] = v])

\* The attribute counts as set when the default element supplies it.
HasAttrOrInherits(w, name) ==
    IF Node(w).attrs[name] # None THEN TRUE
    ELSE IF _default # NoDefault THEN Node(_default).attrs[name] # None
    ELSE FALSE

\* name in self._element.attrib: del raises KeyError otherwise.
HasAttr(w, name) == Node(w).attrs[name] # None

\* ManifestElementInterface.__delattr__
DelAttr ==
    \E w \in Wrappers, a \in EditNames :
        IF ~HasAttr(w, a)
        THEN /\ Mutation("delete", w, a, None, "AttributeError: not set")
             /\ manifests' = manifests
        ELSE /\ Mutation("delete", w, a, None, "none")
             /\ manifests' = WithNode(w, [Node(w) EXCEPT !.attrs[a] = None])

\* ManifestElementInterface.remove: getparent() is None once detached.
Remove ==
    \E w \in Wrappers :
        IF ~Node(w).att
        THEN /\ Mutation("remove", w, None, None, "AttributeError: no parent")
             /\ manifests' = manifests
        ELSE /\ Mutation("remove", w, None, None, "none")
             /\ manifests' = WithNode(w, [Node(w) EXCEPT !.att = FALSE])

\* The children the caller adds.
NewChildren == {[tag |-> "annotation", attrs |-> Attrs("B", None, None)]}

\* ManifestElementInterface.add_child, on the wrapper of a top-level element
AddChild ==
    \E w \in TopWrappers, c \in NewChildren :
        /\ Mutation("add_child", w, None, None, "none")
        /\ manifests' = WithNode(w, [Node(w) EXCEPT !.kids =
               Append(@, [tag |-> c.tag, attrs |-> c.attrs, att |-> TRUE,
                          kids |-> <<>>])])

---------------------------------------------------------------------------
(* Queries *)

\* The test of one remove-project entry against one project in
\* ScManifest._apply_remove_project_attributes.
Matches(rm, project) ==
    \/ Get(rm, "name") = Get(project, "name")
          /\ Get(rm, "path") = ProjectPath(project)
    \/ Get(rm, "name") = Get(project, "name") /\ Get(rm, "path") = None
    \/ Get(rm, "name") = None /\ Get(rm, "path") = ProjectPath(project)

\* The index of the first project of the list that rm matches, 0 if none.
FirstMatch(rm, projs) ==
    LET S == {i \in 1..Len(projs) : Matches(rm, projs[i])}
    IN  IF S = {} THEN 0 ELSE CHOOSE i \in S : \A k \in S : i <= k

\* projects.remove(project)
Without(seq, i) == SubSeq(seq, 1, i - 1) \o SubSeq(seq, i + 1, Len(seq))

\* The inner loop: the first project that rm matches leaves the list.
RemoveOne(rm, projs) ==
    IF FirstMatch(rm, projs) = 0 THEN projs
    ELSE Without(projs, FirstMatch(rm, projs))

RECURSIVE ApplyFrom(_, _, _)
\* The outer loop, from entry k on.
ApplyFrom(rms, k, projs) ==
    IF k > Len(rms) THEN projs
    ELSE ApplyFrom(rms, k + 1, RemoveOne(rms[k], projs))

\* ScManifest.remove_projects
remove_projects == _find_all("remove-project")

\* ScManifest._apply_remove_project_attributes
_apply_remove_project_attributes(projs) == ApplyFrom(remove_projects, 1, projs)

\* ScManifest.projects
projects == _apply_remove_project_attributes(_find_all("project"))

\* ScManifest.remotes
remotes == _find_all("remote")

\* raise AttributeError('No project found with ...')
NotFound == <<0, 0>>

\* The first wrapper of the list, NotFound when the list is empty.
FirstOr(hits) == IF hits = <<>> THEN NotFound ELSE Head(hits)

\* The lookup by name over the project elements before filtering.
GetRawProjectByName(project_name) ==
    FirstOr(SelectSeq(_find_all("project"),
                      LAMBDA project : Get(project, "name") = project_name))

\* ScManifest.get_project_by_name
get_project_by_name(project_name) ==
    FirstOr(SelectSeq(projects,
                      LAMBDA project : Get(project, "name") = project_name))

\* ScManifest.get_project_by_path
get_project_by_path(project_path) ==
    FirstOr(SelectSeq(projects,
                      LAMBDA project : ProjectPath(project) = project_path))

\* ScManifest.get_remote_by_name
get_remote_by_name(remote_name) ==
    FirstOr(SelectSeq(remotes,
                      LAMBDA remote : Get(remote, "name") = remote_name))

\* manifest.projects taking the projects it filters out of their documents.
QueryProjectsDetaching ==
    /\ status = "ready"
    /\ view' = projects
    /\ manifests' =
          [d \in 1..Len(manifests) |->
              [manifests[d] EXCEPT !.top =
                  [i \in 1..Len(manifests[d].top) |->
                      IF manifests[d].top[i].tag = "project"
                         /\ \A k \in 1..Len(projects) : projects[k] # <<d, i>>
                      THEN [manifests[d].top[i] EXCEPT !.att = FALSE]
                      ELSE manifests[d].top[i]]]]
    /\ UNCHANGED <<disk, manifest_path, _default, status, stack,
                   err, wr, ops, last, snap, before, wrote, phase, dirty>>

\* The caller reads manifest.projects.
QueryProjects ==
    /\ status = "ready"
    /\ view' = projects
    /\ UNCHANGED <<disk, manifest_path, manifests, _default, status, stack,
                   err, wr, ops, last, snap, before, wrote, phase, dirty>>

---------------------------------------------------------------------------
(* ScManifest.write *)

\* The document the loop of write() is at.
WriteIndex == IF status = "ready" THEN 1 ELSE wr

\* write() is called, or its loop goes on.
WriteCall ==
    IF status = "ready"
    THEN /\ ops < MaxOps
         /\ ops' = ops + 1
         /\ last' = Call("write", <<>>, None, None)
         /\ before' = disk
    ELSE /\ status = "writing"
         /\ UNCHANGED <<ops, last, before>>

\* The path document k is written to.
WriteTarget(k) == manifests[k].path

\* The paths written so far by this call of write().
Written == IF status = "ready" THEN <<>> ELSE wrote

\* One turn of the loop: the document is written to its own path.
WriteDoc ==
    /\ WriteCall
    /\ LET k == WriteIndex
       IN  /\ disk' = [disk EXCEPT ![WriteTarget(k)] =
                           XmlFile(SerTop(manifests[k].top))]
           /\ wrote' = Append(Written, WriteTarget(k))
           /\ IF k = Len(manifests)
              THEN /\ status' = "ready"
                   /\ wr' = 0
                   /\ snap' = manifests
                   /\ phase' = "written"
              ELSE /\ status' = "writing"
                   /\ wr' = k + 1
                   /\ snap' = NoSnap
                   /\ phase' = "initial"
    /\ err' = NoErr
    /\ UNCHANGED <<manifest_path, manifests, _default, stack, dirty, view>>

\* One turn of the loop fails and write() returns as if it had not.
WriteFailSilent ==
    /\ WriteCall
    /\ LET k == WriteIndex
       IN  /\ \E f \in {disk[WriteTarget(k)], Partial} :
                  disk' = [disk EXCEPT ![WriteTarget(k)] = f]
           /\ wrote' = Written
    /\ err' = NoErr
    /\ status' = "ready"
    /\ wr' = 0
    /\ snap' = NoSnap
    /\ phase' = "initial"
    /\ UNCHANGED <<manifest_path, manifests, _default, stack, dirty, view>>

\* One turn of the loop fails (open() or tree.write() raises): the file is
\* left as it was or cut short, and the exception leaves write().
WriteFail ==
    /\ WriteCall
    /\ LET k == WriteIndex
       IN  /\ \E f \in {disk[WriteTarget(k)], Partial} :
                  disk' = [disk EXCEPT ![WriteTarget(k)] = f]
           /\ wrote' = Written
           /\ err' = Error("OSError: write", WriteTarget(k))
    /\ status' = "ready"
    /\ wr' = 0
    /\ snap' = NoSnap
    /\ phase' = "initial"
    /\ UNCHANGED <<manifest_path, manifests, _default, stack, dirty, view>>

---------------------------------------------------------------------------
(* Manifests on disk *)

Include(name) == Elem("include", Attrs(name, None, None), <<>>)
Default(attrs) == Elem("default", attrs, <<>>)
Project(attrs) == Elem("project", attrs, <<>>)
RemoveProject(attrs) == Elem("remove-project", attrs, <<>>)
Remote(attrs) == Elem("remote", attrs, <<>>)

Includes(names) == [i \in 1..Len(names) |-> Include(names[i])]

Opt(present, e) == IF present THEN <<e>> ELSE <<>>

RootPath == <<"m">>

Fresh ==
    /\ manifest_path = RootPath
    /\ manifests = <<>>
    /\ _default = NoDefault
    /\ status = "new"
    /\ stack = <<>>
    /\ err = NoErr
    /\ wr = 0
    /\ ops = 0
    /\ last = NoLast
    /\ snap = NoSnap
    /\ before = disk
    /\ wrote = <<>>
    /\ phase = "initial"
    /\ dirty = FALSE
    /\ view = NoView

\* A root manifest that includes a, which includes b: a default (or none),
\* two projects and a remote.
Init ==
    /\ \E hasDefault \in BOOLEAN :
          disk = (<<"m">> :> XmlFile(<<Include("a")>>
                      \o Opt(hasDefault, Default(Attrs(None, None, "A")))
                      \o <<Project(Attrs("A", None, None))>>))
              @@ (<<"a">> :> XmlFile(<<Include("b"),
                                      Project(Attrs("B", "A", "B"))>>))
              @@ (<<"b">> :> XmlFile(<<Remote(Attrs("A", None, None))>>))
    /\ Fresh

Next ==
    \/ Construct
    \/ LoadStep
    \/ SetAttr
    \/ DelAttr
    \/ Remove
    \/ AddChild
    \/ WriteDoc
    \/ WriteFail

Spec == Init /\ [][Next]_vars

---------------------------------------------------------------------------
(* Construction over include graphs *)

\* What the include elements of the root manifest, of a and of s/b name
\* (None: an include with no name attribute; "x" names no file).
RootIncludes == {<<>>, <<"a">>, <<"s/b">>, <<"a", "s/b">>, <<None>>,
                 <<"a", None>>, <<"m">>, <<"x">>}
AIncludes == {<<>>, <<"s/b">>, <<None>>, <<"a">>, <<"m">>}
SBIncludes == {<<>>, <<"a">>, <<"b">>, <<None>>}

\* A manifest file: its includes, a default or none, a remote and a project.
Manifest(names, hasDefault, id) ==
    XmlFile(Includes(names)
            \o Opt(hasDefault, Default(Attrs(None, None, id)))
            \o <<Remote(Attrs(id, None, None)), Project(Attrs(id, None, None))>>)

InitLoad ==
    /\ \E im \in RootIncludes, ia \in AIncludes, isb \in SBIncludes,
          dm \in BOOLEAN, da \in BOOLEAN, dsa \in BOOLEAN :
          disk = (<<"m">> :> Manifest(im, dm, "m"))
              @@ (<<"a">> :> Manifest(ia, da, "a"))
              @@ (<<"s", "b">> :> Manifest(isb, FALSE, "s/b"))
              @@ (<<"s", "a">> :> Manifest(<<>>, dsa, "s/a"))
    /\ Fresh

NextLoad == Construct \/ LoadStep

SpecLoad == InitLoad /\ [][NextLoad]_vars

\* A construction that was called runs: its loops take their next step.
SpecLoadLive == SpecLoad /\ WF_vars(LoadStep)

---------------------------------------------------------------------------
(* projects() over defaults, projects and remove-project entries *)

ProjectNames == {None, "A", "B"}
ProjectPaths == {None, "", "A", "B"}
EntryValues == {None, "A", "B"}
DefaultAttrs == {Attrs(n, p, None) : n \in {None, "A"}, p \in {None, "B"}}
SecondEntries ==
    {<<>>} \cup {<<RemoveProject(Attrs(n, p, None))>> :
                    n \in {None, "A"}, p \in {None, "B"}}

InitFilter ==
    /\ \E hasDefault \in BOOLEAN, d \in DefaultAttrs,
          n1 \in ProjectNames, p1 \in ProjectPaths,
          n2 \in {"A", "B"}, p2 \in ProjectPaths,
          rn1 \in EntryValues, rp1 \in EntryValues, r2 \in SecondEntries :
          /\ hasDefault \/ d = NoAttrs
          /\ disk = (<<"m">> :> XmlFile(<<Include("a")>>
                          \o Opt(hasDefault, Default(d))
                          \o <<Project(Attrs(n1, p1, None)),
                               RemoveProject(Attrs(rn1, rp1, None))>>))
                  @@ (<<"a">> :> XmlFile(<<Project(Attrs(n2, p2, None))>>
                                        \o r2))
    /\ Fresh

NextFilter == Construct \/ LoadStep \/ QueryProjects

SpecFilter == InitFilter /\ [][NextFilter]_vars

---------------------------------------------------------------------------
(* Construction from a workspace root *)

\* The pointer file <root>/manifest.xml: absent, cut short, a symbolic
\* link, or a manifest with these includes.
PointerFiles ==
    {Missing, Partial, Link("manifests/m")}
        \cup {XmlFile(Includes(names)) :
                 names \in {<<>>, <<"m">>, <<"a">>, <<"x">>, <<None>>,
                            <<"m", "a">>, <<"m", "m">>, <<"m", "a", "x">>}}

InitRepo ==
    /\ \E pointer \in PointerFiles, im \in {<<>>, <<"a">>, <<None>>},
          dm \in BOOLEAN, da \in BOOLEAN :
          disk = (<<"r", "manifest.xml">> :> pointer)
              @@ (<<"r", "manifests", "m">> :> Manifest(im, dm, "m"))
              @@ (<<"r", "manifests", "a">> :> Manifest(<<>>, da, "a"))
    /\ manifest_path = <<>>
    /\ manifests = <<>>
    /\ _default = NoDefault
    /\ status = "new"
    /\ stack = <<>>
    /\ err = NoErr
    /\ wr = 0
    /\ ops = 0
    /\ last = NoLast
    /\ snap = NoSnap
    /\ before = disk
    /\ wrote = <<>>
    /\ phase = "initial"
    /\ dirty = FALSE
    /\ view = NoView

NextRepo == from_repo_root \/ LoadStep

SpecRepo == InitRepo /\ [][NextRepo]_vars

---------------------------------------------------------------------------
(* Queries, lookups and write() over projects, entries and remotes *)

QueryDefaults ==
    {<<>>, <<Default(Attrs(None, "B", None))>>,
     <<Default(Attrs("A", None, None))>>}

InitQuery ==
    /\ \E d \in QueryDefaults, p1 \in {None, "", "B"},
          n2 \in {"A", "B"}, p2 \in {None, "A"},
          rn \in {None, "A"}, rp \in {None, "B"}, r1 \in {None, "A", "B"} :
          disk = (<<"m">> :> XmlFile(<<Include("a")>> \o d
                          \o <<Project(Attrs("A", p1, None)),
                               RemoveProject(Attrs(rn, rp, None)),
                               Remote(Attrs(r1, None, None))>>))
                  @@ (<<"a">> :> XmlFile(<<Project(Attrs(n2, p2, None)),
                                         Remote(Attrs("A", None, None))>>))
    /\ Fresh

NextQuery == Construct \/ LoadStep \/ QueryProjects \/ WriteDoc

SpecQuery == InitQuery /\ [][NextQuery]_vars

---------------------------------------------------------------------------
(* Projects with annotation children *)

\* <annotation name=... value=.../>
Annotation(name, value) ==
    Elem("annotation", [Attrs(name, None, None) EXCEPT !["value"] = value],
         <<>>)

\* The annotations a project carries.
AnnotationKinds ==
    {Annotation("GIT_FLOW_BRANCH_MASTER", "v2"),
     Annotation("GIT_FLOW_BRANCH_DEVELOP", "develop_2"),
     Annotation("GIT_FLOW_SUFFIX", "v2"),
     Annotation("GIT_FLOW_SUFFIX", None),
     Annotation("GIT_LOCK_STATUS", "v2"),
     Annotation(None, "develop_2")}

AnnotationLists ==
    {<<>>} \cup {<<a>> : a \in AnnotationKinds}
           \cup {<<a, b>> : a \in AnnotationKinds, b \in AnnotationKinds}
           \cup {<<a, Elem("linkfile", NoAttrs, <<>>), b>> :
                    a \in AnnotationKinds, b \in AnnotationKinds}

\* What the default element carries, if there is one.
BranchDefaults ==
    {<<>>, <<Default(Attrs(None, None, "A"))>>,
     <<Default([NoAttrs EXCEPT !["value"] = "v2"])>>,
     <<Default(Attrs("GIT_FLOW_SUFFIX", None, None))>>}

\* One manifest: a default or none, and a project with its annotations.
InitBranch ==
    /\ \E d \in BranchDefaults, kids \in AnnotationLists :
          disk = (<<"m">> :> XmlFile(
                     d \o <<Elem("project", Attrs("A", None, None), kids)>>))
    /\ Fresh

NextBranch == Construct \/ LoadStep \/ Remove

SpecBranch == InitBranch /\ [][NextBranch]_vars

---------------------------------------------------------------------------
(* Properties *)

\* The attribute value an element carries itself.
Own(w, a) ==
    IF Len(w) = 2 THEN manifests[w[1]].top[w[2]].attrs[a]
    ELSE manifests[w[1]].top[w[2]].kids[w[3]].attrs[a]

\* C1: get(attrName) on any wrapper returns the element's own value when
\* the attribute is set on it, otherwise the default record's value when
\* the resolver has a default record, otherwise None; a project with no
\* remote of its own reads remote equal to defaultValue("remote").
C1_GetFallsBackToDefault ==
    status = "ready" =>
        \A w \in Wrappers, a \in AttrNames :
            /\ Own(w, a) # None => Get(w, a) = Own(w, a)
            /\ Own(w, a) = None /\ _default # NoDefault
                  => Get(w, a) = Own(_default, a)
            /\ Own(w, a) = None /\ _default = NoDefault => Get(w, a) = None
            /\ Node(w).tag = "project" /\ Own(w, "remote") = None
                  => Get(w, "remote") = get_default_value("remote")

\* A project without a remote of its own reads the default's remote, and a
\* wrapper reads an attribute it had set over the default's value.
C1_Witness ==
    /\ status = "ready"
    /\ _default # NoDefault
    /\ \E w \in Wrappers :
          /\ Node(w).tag = "project"
          /\ Own(w, "remote") = None
          /\ Get(w, "remote") = "A"
    /\ \E w \in Wrappers :
          /\ last = Call("set", w, "remote", "B")
          /\ Own(_default, "remote") = "A"
          /\ Get(w, "remote") = "B"

\* A step that is the call del wrapper.attr.
IsDelete == ops' = ops + 1 /\ last'.op = "delete"

\* The trees after the step differ from the trees before it in nothing
\* but attribute a of element w, which is no longer set.
OnlyUnset(w, a) ==
    /\ Len(manifests') = Len(manifests)
    /\ \A d \in 1..Len(manifests) :
          /\ manifests'[d].path = manifests[d].path
          /\ Len(manifests'[d].top) = Len(manifests[d].top)
          /\ \A i \in 1..Len(manifests[d].top) :
                LET n == manifests[d].top[i]
                    m == manifests'[d].top[i]
                IN  /\ m.tag = n.tag /\ m.att = n.att
                    /\ Len(m.kids) = Len(n.kids)
                    /\ \A b \in AttrNames :
                          m.attrs[b] = IF w = <<d, i>> /\ b = a THEN None
                                       ELSE n.attrs[b]
                    /\ \A j \in 1..Len(n.kids) :
                          /\ m.kids[j].tag = n.kids[j].tag
                          /\ m.kids[j].att = n.kids[j].att
                          /\ m.kids[j].kids = n.kids[j].kids
                          /\ \A b \in AttrNames :
                                m.kids[j].attrs[b] =
                                    IF w = <<d, i, j>> /\ b = a THEN None
                                    ELSE n.kids[j].attrs[b]

\* C2: delete(attrName) on an element that does not carry the attribute
\* itself raises the "not set" error, also when the default record has a
\* value for it, and changes neither the trees nor the default record;
\* delete of an attribute the element carries returns and unsets that
\* attribute of that element and nothing else.
C2_DeleteNeedsOwnAttribute ==
    [][IsDelete =>
         LET w == last'.w
             a == last'.a
         IN  IF Own(w, a) = None
             THEN /\ err'.kind = "AttributeError: not set"
                  /\ manifests' = manifests
                  /\ _default' = _default
             ELSE /\ err' = NoErr
                  /\ OnlyUnset(w, a)
                  /\ _default' = _default]_vars

\* del of an attribute that only the default record supplies has raised.
C2_Witness ==
    /\ last.op = "delete"
    /\ err.kind = "AttributeError: not set"
    /\ Own(last.w, last.a) = None
    /\ _default # NoDefault
    /\ Get(last.w, last.a) = "A"
    /\ last.w # _default

\* The raw project list and the remove-project entries, as sets.
RawProjects == Range(_find_all("project"))
Entries == Range(remove_projects)

\* An entry carries a name or a path itself.
Says(rm) == Own(rm, "name") # None \/ Own(rm, "path") # None

\* The matching rule by the entry's own name and path.
RuleMatches(rm, project) ==
    LET n == Own(rm, "name")
        q == Own(rm, "path")
    IN  CASE n # None /\ q # None ->
               Get(project, "name") = n /\ ProjectPath(project) = q
          [] n # None /\ q = None -> Get(project, "name") = n
          [] n = None /\ q # None -> ProjectPath(project) = q
          [] OTHER -> FALSE

\* C3: whatever the default record carries, an entry with name and path
\* matches a project only if both match, an entry with only a name matches
\* by name whatever the project's path, an entry with only a path matches
\* by derived path whatever the project's name; a project that no entry
\* matches is in projects().
C3_MatchingRule ==
    status = "ready" =>
        /\ \A rm \in Entries, project \in RawProjects :
              Says(rm) => (Matches(rm, project) <=> RuleMatches(rm, project))
        /\ (\A rm \in Entries : Says(rm)) =>
              \A project \in RawProjects :
                  (\A rm \in Entries : ~RuleMatches(rm, project))
                      => project \in Range(projects)

\* The index of the first project of the list the rule matches, 0 if none.
RuleFirst(rm, projs) ==
    LET S == {i \in 1..Len(projs) : RuleMatches(rm, projs[i])}
    IN  IF S = {} THEN 0 ELSE CHOOSE i \in S : \A k \in S : i <= k

RECURSIVE RuleApply(_, _, _)
\* The entries from k on, each removing the first project it matches.
RuleApply(rms, k, projs) ==
    IF k > Len(rms) THEN projs
    ELSE RuleApply(rms, k + 1,
             IF RuleFirst(rms[k], projs) = 0 THEN projs
             ELSE SubSeq(projs, 1, RuleFirst(rms[k], projs) - 1)
                    \o SubSeq(projs, RuleFirst(rms[k], projs) + 1, Len(projs)))

\* sub is seq with some elements left out.
RECURSIVE IsSubSeq(_, _)
IsSubSeq(sub, seq) ==
    IF sub = <<>> THEN TRUE
    ELSE IF seq = <<>> THEN FALSE
    ELSE IF Head(sub) = Head(seq) THEN IsSubSeq(Tail(sub), Tail(seq))
    ELSE IsSubSeq(sub, Tail(seq))

\* Projects {name A, path A} then {name A, path B}, and one entry.
TwoProjectsNamedA(entry) ==
    /\ Len(_find_all("project")) = 2
    /\ Node(_find_all("project")[1]).attrs = Attrs("A", "A", None)
    /\ Node(_find_all("project")[2]).attrs = Attrs("A", "B", None)
    /\ Len(remove_projects) = 1
    /\ Node(remove_projects[1]).attrs = entry

\* C4: the entries are applied in manifest order, each removing the first
\* project it matches in the list the earlier entries left; with projects
\* {A, path A} then {A, path B}, the entry name=A removes the first and the
\* entry name=A path=B removes the second; the result keeps at least raw
\* count minus entry count projects, in their order.
C4_FirstMatchPerEntry ==
    status = "ready" =>
        /\ (\A rm \in Entries : Says(rm)) =>
              projects = RuleApply(remove_projects, 1, _find_all("project"))
        /\ TwoProjectsNamedA(Attrs("A", None, None))
              => projects = <<_find_all("project")[2]>>
        /\ TwoProjectsNamedA(Attrs("A", "B", None))
              => projects = <<_find_all("project")[1]>>
        /\ Len(projects) >= Len(_find_all("project")) - Len(remove_projects)
        /\ IsSubSeq(projects, _find_all("project"))

\* The names of the top-level include elements of the file at path
\* (None for an include without a name).
IncludeNames(path) ==
    LET top == Read(path).top
    IN  {top[i].attrs["name"] :
            i \in {j \in 1..Len(top) : top[j].tag = "include"}}

\* The paths the includes of the file at path name, each relative to the
\* directory of that file.
Included(path) ==
    {SubSeq(path, 1, Len(path) - 1) \o Parts(n) :
        n \in IncludeNames(path) \ {None}}

RECURSIVE ReachFrom(_)
\* The paths reachable from the paths S through includes, S included.
ReachFrom(S) ==
    LET T == S \cup UNION {Included(p) : p \in S}
    IN  IF T = S THEN S ELSE ReachFrom(T)

Reachable == ReachFrom({manifest_path})

\* Every reachable path names a well-formed file, no reachable file
\* includes itself directly or indirectly, every include has a name.
FilesExist == \A p \in Reachable : Read(p).kind = "xml"
Acyclic == \A p \in Reachable : p \notin ReachFrom(Included(p))
AllNamed == \A p \in Reachable : None \notin IncludeNames(p)

\* A construction has ended and nothing was called since.
Constructed ==
    status \in {"ready", "failed"} /\ last.op = "construct" /\ ~dirty

\* The positions of the top-level elements with the given tag.
TopLevel(tag) ==
    UNION {{<<d, i>> : i \in {j \in 1..Len(manifests[d].top) :
                                 manifests[d].top[j].tag = tag}} :
           d \in 1..Len(manifests)}

\* seq holds every element of S once and nothing else.
ListsOnce(seq, S) ==
    /\ Range(seq) = S
    /\ Len(seq) = Cardinality(S)

\* C5: after a successful construction the document set holds one document
\* for each path reachable from the root through top-level includes, each
\* include resolved against the directory of the including document, and
\* remotes() and the unfiltered project list hold every top-level remote
\* and project element of those documents exactly once.
C5_IncludesFlattened ==
    Constructed /\ status = "ready" =>
        /\ {manifests[d].path : d \in 1..Len(manifests)} = Reachable
        /\ Len(manifests) = Cardinality(Reachable)
        /\ \A d \in 1..Len(manifests) :
              manifests[d].top = ParseTop(Read(manifests[d].path).top)
        /\ ListsOnce(remotes, TopLevel("remote"))
        /\ ListsOnce(_find_all("project"), TopLevel("project"))

\* The root includes a, a includes s/b and s/b includes a, which is s/a:
\* four documents, two levels of includes below the root's.
C5_Witness ==
    /\ Constructed /\ status = "ready"
    /\ Len(manifests) = 4
    /\ IncludeNames(<<"m">>) = {"a"}
    /\ IncludeNames(<<"a">>) = {"s/b"}
    /\ IncludeNames(<<"s", "b">>) = {"a"}
    /\ IndexOf(manifests, <<"s", "a">>) # 0
    /\ Len(remotes) = 4

\* C6: when the includes load, construction fails with the duplicate
\* default error exactly when the loaded documents hold more than one
\* top-level default element, in whichever documents; with none it
\* succeeds without a default record, with one that element is the
\* default record.
C6_OneDefault ==
    Constructed /\ FilesExist /\ Acyclic /\ AllNamed =>
        LET n == Cardinality(TopLevel("default"))
        IN  /\ n > 1 => /\ status = "failed"
                        /\ err.kind = "ValueError: more than one default"
            /\ n = 0 => status = "ready" /\ _default = NoDefault
            /\ n = 1 => status = "ready" /\ _default \in TopLevel("default")

\* Two defaults in two included documents, none in the root: refused.
C6_Witness ==
    /\ Constructed
    /\ status = "failed"
    /\ err.kind = "ValueError: more than one default"
    /\ \E v, w \in TopLevel("default") : v[1] # w[1] /\ v[1] # 1 /\ w[1] # 1

\* C7: an include without a name, in the root manifest or in any included
\* document, makes construction fail with the malformed include error,
\* which names the path of a document holding such an include.
C7_NamelessIncludeIsMalformed ==
    Constructed /\ FilesExist /\ Acyclic /\ ~AllNamed =>
        /\ status = "failed"
        /\ err.kind = "ValueError: include missing name"
        /\ err.path \in {p \in Reachable : None \in IncludeNames(p)}
        /\ IndexOf(manifests, err.path) # 0

\* The elements of seq that are attached to their parent.
Attached(seq) == SelectSeq(seq, LAMBDA n : n.att)

RECURSIVE Visible(_)
\* What an element shows: its tag, its attributes, its attached children.
Visible(n) ==
    LET ks == Attached(n.kids)
    IN  [tag |-> n.tag, attrs |-> n.attrs,
         kids |-> [i \in 1..Len(ks) |-> Visible(ks[i])]]

\* What a document set shows: each document's path and attached elements.
Shown(ms) ==
    [d \in 1..Len(ms) |->
        [path |-> ms[d].path,
         top |-> LET ks == Attached(ms[d].top)
                 IN  [i \in 1..Len(ks) |-> Visible(ks[i])]]]

\* The elements with the given tag that a shown document set holds.
ShownWith(sh, tag) ==
    UNION {{<<d, i>> : i \in {j \in 1..Len(sh[d].top) :
                                 sh[d].top[j].tag = tag}} :
           d \in 1..Len(sh)}

\* C8: a resolver constructed from the same root path after a write() that
\* returned holds what the trees showed when write() was called: the same
\* documents, each element with the attributes set and without the ones
\* deleted, the added children, not the removed elements; an attribute an
\* element lacks reads as the written default's; projects() holds the
\* written projects (no manifest of Init has a remove-project entry).
C8_WriteThenReload ==
    phase = "reloaded" /\ Constructed =>
        /\ status = "ready"
        /\ Shown(manifests) = Shown(snap)
        /\ LET sh == Shown(snap)
               ds == ShownWith(sh, "default")
           IN  /\ Len(projects) = Cardinality(ShownWith(sh, "project"))
               /\ \A w \in Wrappers, a \in AttrNames :
                     LET own == IF Len(w) = 2 THEN sh[w[1]].top[w[2]].attrs[a]
                                ELSE sh[w[1]].top[w[2]].kids[w[3]].attrs[a]
                     IN  Get(w, a) =
                             IF own # None THEN own
                             ELSE IF ds = {} THEN None
                             ELSE LET v == CHOOSE v \in ds : TRUE
                                  IN  sh[v[1]].top[v[2]].attrs[a]

\* A child was added and a project removed, write() returned, and the new
\* resolver shows the child and one project.
C8_Witness ==
    /\ phase = "reloaded" /\ Constructed /\ status = "ready"
    /\ Len(projects) = 1
    /\ \E d \in 1..Len(snap) : \E i \in 1..Len(snap[d].top) :
          ~snap[d].top[i].att /\ snap[d].top[i].tag = "project"
    /\ \E w \in TopWrappers : Len(Children(w)) = 1

\* The files of the documents from index i to index j are as the trees are.
Rewritten(i, j) ==
    \A k \in i..j :
        Read(manifests[k].path) = XmlFile(Shown(manifests)[k].top)

\* The files of the documents from index i to index j are as they were
\* when write() was called.
Untouched(i, j) ==
    \A k \in i..j : Read(manifests[k].path) = before[manifests[k].path]

\* The paths of the documents 1..n, in the order of the document set.
PathsTo(n) == [k \in 1..n |-> manifests[k].path]

\* C9: write() takes the documents one after another; while it runs and
\* when one write fails, the documents before are on disk as the trees
\* are, the files of the later ones are as they were, and the failure
\* reaches the caller; when write() returns, every document has been
\* written to its own path.
C9_WriteInOrder ==
    /\ status = "writing" =>
          /\ wr \in 2..Len(manifests)
          /\ wrote = PathsTo(wr - 1)
          /\ Rewritten(1, wr - 1)
          /\ Untouched(wr, Len(manifests))
    /\ status = "ready" /\ last.op = "write" /\ err # NoErr =>
          LET k == IndexOf(manifests, err.path)
          IN  /\ err.kind = "OSError: write"
              /\ k # 0
              /\ wrote = PathsTo(k - 1)
              /\ Rewritten(1, k - 1)
              /\ Read(err.path) \in {before[err.path], Partial}
              /\ Untouched(k + 1, Len(manifests))
    /\ status = "ready" /\ last.op = "write" /\ err = NoErr =>
          /\ wrote = PathsTo(Len(manifests))
          /\ Rewritten(1, Len(manifests))

\* The root manifest was edited and written, the write of the second
\* document failed: the root's file is new, the third's is as it was.
C9_Witness ==
    /\ status = "ready" /\ last.op = "write"
    /\ err = Error("OSError: write", <<"a">>)
    /\ Len(manifests) = 3
    /\ disk[<<"m">>] # before[<<"m">>]
    /\ wrote = << <<"m">> >>
    /\ disk[<<"b">>] = before[<<"b">>]

\* The top-level default elements that are in a loaded document now.
CurrentDefaults == {w \in TopLevel("default") : Node(w).att}

\* C10: after any mutations, defaultValue(attrName) is the attribute value
\* of the top-level default element that is in the document set now, and
\* is absent when there is none, also after the default was removed.
C10_DefaultNotCached ==
    status = "ready" =>
        \A a \in AttrNames :
            get_default_value(a) =
                IF CurrentDefaults = {} THEN None
                ELSE Own(CHOOSE w \in CurrentDefaults : TRUE, a)

\* The annotation children of a project, in document order.
AnnotationsOf(w) ==
    LET kids == [j \in 1..Len(Node(w).kids) |-> <<w[1], w[2], j>>]
    IN  SelectSeq(kids, LAMBDA c : Node(c).att /\ Node(c).tag = "annotation")

\* The first annotation of the project that is named for the branch or
\* is the suffix annotation decides; None when there is none.
Alternative(w, branch, branchName) ==
    LET as == AnnotationsOf(w)
        S == {i \in 1..Len(as) :
                 Get(as[i], "name") \in {branchName, "GIT_FLOW_SUFFIX"}}
    IN  IF S = {} THEN None
        ELSE LET first == as[CHOOSE i \in S : \A j \in S : i <= j]
             IN  IF Get(first, "name") = branchName
                 THEN Get(first, "value")
                 ELSE Dash(branch, Get(first, "value"))

ProjectWrappers == Range(_find_all("project"))

\* The project's annotations are exactly these (name, value) pairs.
Annotated(w, pairs) ==
    /\ Len(AnnotationsOf(w)) = Len(pairs)
    /\ \A i \in 1..Len(pairs) :
          /\ Own(AnnotationsOf(w)[i], "name") = pairs[i][1]
          /\ Own(AnnotationsOf(w)[i], "value") = pairs[i][2]

\* C11: alternative_master and alternative_develop are decided, from the
\* children the project has now, by the first annotation in document order
\* named GIT_FLOW_BRANCH_MASTER (resp. _DEVELOP) or GIT_FLOW_SUFFIX: its
\* value for the branch annotation, "<branch>-<value>" for the suffix
\* annotation, None when there is no such annotation.  A suffix v2 alone
\* gives master-v2 and develop-v2; GIT_FLOW_BRANCH_DEVELOP=develop_2 alone
\* gives develop_2 and no alternative master.
C11_FirstAnnotationDecides ==
    status = "ready" =>
        \A w \in ProjectWrappers :
            /\ alternative_master(w) =
                  Alternative(w, "master", "GIT_FLOW_BRANCH_MASTER")
            /\ alternative_develop(w) =
                  Alternative(w, "develop", "GIT_FLOW_BRANCH_DEVELOP")
            /\ Annotated(w, << <<"GIT_FLOW_SUFFIX", "v2">> >>) =>
                  /\ alternative_master(w) = "master-v2"
                  /\ alternative_develop(w) = "develop-v2"
            /\ Annotated(w, << <<"GIT_FLOW_BRANCH_DEVELOP", "develop_2">> >>) =>
                  /\ alternative_develop(w) = "develop_2"
                  /\ alternative_master(w) = None

\* The suffix annotation came before the develop annotation and decided;
\* it was removed, and the develop annotation decides now.
C11_Witness ==
    /\ status = "ready"
    /\ last.op = "remove"
    /\ \E w \in ProjectWrappers :
          /\ Len(Node(w).kids) = 2
          /\ ~Node(w).kids[1].att
          /\ Node(w).kids[1].attrs["name"] = "GIT_FLOW_SUFFIX"
          /\ Annotated(w, << <<"GIT_FLOW_BRANCH_DEVELOP", "develop_2">> >>)
          /\ alternative_develop(w) = "develop_2"
          /\ alternative_master(w) = None

\* The first element of the list that satisfies the test, NotFound if none.
FirstSuch(seq, Test(_)) ==
    LET S == {i \in 1..Len(seq) : Test(seq[i])}
    IN  IF S = {} THEN NotFound
        ELSE seq[CHOOSE i \in S : \A j \in S : i <= j]

\* The path attribute of a project if it has one, else its name.
PathIfPresent(w) ==
    IF Own(w, "path") # None THEN Own(w, "path") ELSE Own(w, "name")

\* The path attribute of a project if it has one that is not empty, else
\* its name.
PathIfNotEmpty(w) ==
    IF Own(w, "path") \notin {None, ""} THEN Own(w, "path")
    ELSE Own(w, "name")

LookupKeys == {"", "A", "B"}

\* The three lookups return the first element of projects() or remotes()
\* with the name or derived path asked for, NotFound exactly when there is
\* none, and never a project that filtering excludes.
LookupsScanFiltered(DerivedPath(_)) ==
    status = "ready" =>
        \A n \in LookupKeys :
            /\ get_project_by_name(n) =
                  FirstSuch(projects, LAMBDA w : Get(w, "name") = n)
            /\ get_project_by_path(n) =
                  FirstSuch(projects, LAMBDA w : DerivedPath(w) = n)
            /\ get_remote_by_name(n) =
                  FirstSuch(remotes, LAMBDA w : Get(w, "name") = n)
            /\ \A w \in RawProjects \ Range(projects) :
                  get_project_by_name(n) # w /\ get_project_by_path(n) # w
            /\ get_project_by_name(n) = NotFound
                  <=> \A w \in Range(projects) : Get(w, "name") # n
            /\ get_project_by_path(n) = NotFound
                  <=> \A w \in Range(projects) : DerivedPath(w) # n
            /\ get_remote_by_name(n) = NotFound
                  <=> \A w \in Range(remotes) : Get(w, "name") # n

\* C12 as stated: getProjectByName(n) returns the first project of
\* projects() whose name is n, getProjectByPath(p) the first whose derived
\* path (its path attribute if present, else its name) is p,
\* getRemoteByName(n) the first remote named n; each raises the not-found
\* error exactly when there is none, so a project that remove-project
\* filtering excludes is never returned.
C12_LookupsByPathIfPresent == LookupsScanFiltered(PathIfPresent)

\* C12 as amended: the same, the derived path being the path attribute if
\* present and not empty, else the name.
C12_LookupsScanFiltered == LookupsScanFiltered(PathIfNotEmpty)

\* The first project named A is filtered out: the lookup by name returns
\* the second one, the lookup by the first one's path finds nothing, and
\* the second of two remotes named A is not the one returned.
C12_Witness ==
    /\ status = "ready"
    /\ Len(_find_all("project")) = 2
    /\ projects = <<_find_all("project")[2]>>
    /\ Get(_find_all("project")[1], "name") = "A"
    /\ get_project_by_name("A") = _find_all("project")[2]
    /\ PathIfNotEmpty(_find_all("project")[1]) = "B"
    /\ get_project_by_path("B") = NotFound
    /\ get_remote_by_name("A") = remotes[1]
    /\ Get(remotes[2], "name") = "A"

\* What the wrappers of a list show: tag and attributes, in order.
ContentOf(seq) ==
    [i \in 1..Len(seq) |->
        [tag |-> Node(seq[i]).tag, attrs |-> Node(seq[i]).attrs]]

\* The step is a call of projects() (view holds what the call returned).
IsQuery == view' # NoView /\ view' # view

\* No mutation came between the caller's last projects() and now.
HoldsView == view # NoView /\ status = "ready"

\* C14: a call of projects() leaves every document, the default record
\* and the files as they are; the projects that filtering drops from the
\* returned list stay in their documents and are written by write(); a
\* second call without a mutation in between returns a list equal to the
\* first in content and order.
C14_QueriesReadOnly ==
    /\ [][IsQuery => /\ manifests' = manifests
                     /\ _default' = _default
                     /\ disk' = disk]_vars
    /\ [](HoldsView =>
            /\ ContentOf(projects) = ContentOf(view)
            /\ \A w \in Range(view) : w \in RawProjects
            /\ \A w \in RawProjects : Node(w).att
            /\ last.op = "write" /\ err = NoErr =>
                  \A d \in 1..Len(manifests) :
                      Read(manifests[d].path) = XmlFile(Shown(manifests)[d].top)
            /\ last.op = "write" /\ err = NoErr =>
                  Cardinality(RawProjects) = 2)

\* projects() returned a list without the project an entry matches, and
\* write() then wrote that project with its document.
C14_Witness ==
    /\ HoldsView
    /\ last.op = "write" /\ err = NoErr
    /\ Len(view) = 1
    /\ Cardinality(RawProjects) = 2
    /\ \E w \in RawProjects \ Range(view) :
          /\ Read(manifests[w[1]].path).top[w[2]].tag = "project"
          /\ Read(manifests[w[1]].path).top[w[2]].attrs = Node(w).attrs

\* The pointer file and the number of its top-level include elements.
Pointer == Read(<<"r", "manifest.xml">>)
PointerIncludes ==
    {i \in 1..Len(Pointer.top) : Pointer.top[i].tag = "include"}

\* from_repo_root has returned or raised.
FromRepoRootEnded ==
    status \in {"ready", "failed"} /\ last.op = "from_repo_root"

\* C13: with a pointer file that is not a symbolic link, one include makes
\* the resolver be constructed from <pointer-dir>/manifests/<name>; any
\* other number of includes makes construction fail with the wrong include
\* count error, a ValueError.
C13_WrongIncludeCount ==
    FromRepoRootEnded /\ Pointer.kind = "xml" =>
        IF Cardinality(PointerIncludes) = 1
        THEN LET name == Pointer.top[CHOOSE i \in PointerIncludes : TRUE]
                             .attrs["name"]
             IN  name # None =>
                     manifest_path = <<"r", "manifests">> \o Parts(name)
        ELSE /\ status = "failed"
             /\ err.kind = "ValueError: wrong include count"

\* Construction has returned or raised.
Ended == status \in {"ready", "failed"}

\* C15: on an include graph without a cycle reachable from the root,
\* diamonds included, the loading that began ends, and not by running out
\* of stack; on a graph with a reachable cycle the loading never ends
\* normally, and when every file is there and every include is named it
\* goes on until the stack runs out.
C15_TerminatesOnAcyclic ==
    /\ (Acyclic /\ status = "loading")
          ~> (Ended /\ err.kind # "RecursionError")
    /\ [](~Acyclic => status # "ready")
    /\ (~Acyclic /\ FilesExist /\ AllNamed /\ status = "loading")
          ~> (status = "failed" /\ err.kind = "RecursionError")

\* The root includes a and a includes the root: the loading took both
\* again and again until the stack ran out.
C15_Witness ==
    /\ IncludeNames(<<"m">>) = {"a"}
    /\ IncludeNames(<<"a">>) = {"m"}
    /\ ~Acyclic /\ FilesExist /\ AllNamed
    /\ status = "failed"
    /\ err.kind = "RecursionError"
    /\ Len(manifests) = 2

===========================================================================
